---- MODULE Spec2Model ----
(***************************************************************************)
(* A model of the js-minifier engine (src/main.go, the build that starts   *)
(* at line 332: Minifier, generateVarName, shortenVariableNames, Minify)   *)
(* and of the program around it (processFile, watchDirectory, main).       *)
(*                                                                         *)
(* Text is a sequence of one-character strings.  Every regular expression  *)
(* of the source is an operator that computes Go's leftmost-first,         *)
(* non-overlapping ReplaceAll for that pattern.                            *)
(***************************************************************************)
EXTENDS Integers, Sequences, FiniteSets, TLC

VARIABLES
    input,            \* Minifier.input
    preserveLicense,  \* Minifier.preserveLicense
    shortenVars,      \* Minifier.shortenVars
    varMap,           \* Minifier.varMap : original identifier -> short name
    varCounter,       \* Minifier.varCounter
    result,           \* the string returned by the last Minify call
    license,          \* licenseComment of the last Minify call
    shielded,         \* the string literals taken by the Shield step, in order
    generated,        \* the names returned by generateVarName, in call order
    pc,               \* "new" after NewMinifier, "done" after Minify returns
    mode,             \* what main runs: "file", "batch", "watch"; "lib" for none
    dir,              \* the directory: for each path whether it exists, can be
                      \* read, can be written, its modification time, its text
    files,            \* the paths main works on: *input, or the result of Glob
    stats,            \* the channel stats: its buffer and whether it is closed
    mainpc,           \* where the main goroutine stands
    wpc,              \* where the goroutine started for each path stands
    closerpc,         \* where the goroutine of wg.Wait(); close(stats) stands
    wg,               \* the counter of the WaitGroup
    allStats,         \* the records main has received
    fileModTimes,     \* watchDirectory's map, 0 for the zero time
    cursor,           \* the index in files of the file the poll looks at
    info,             \* info.ModTime() of the file being processed
    runs,             \* for each path how many times processFile was called
    diag,             \* the lines about errors and results written so far
    debugFile,        \* whether init could open debug.log
    exit              \* "running", "returned", or "deadlock"

mvars == <<input, preserveLicense, shortenVars, varMap, varCounter,
           result, license, shielded, generated, pc>>

dvars == <<mode, dir, files, stats, mainpc, wpc, closerpc, wg, allStats,
           fileModTimes, cursor, info, runs, diag, debugFile, exit>>

vars == <<mvars, dvars>>

-----------------------------------------------------------------------------
(* Character classes of Go's regexp (RE2) syntax.                          *)

alphabet ==
    <<"a","b","c","d","e","f","g","h","i","j","k","l","m",
      "n","o","p","q","r","s","t","u","v","w","x","y","z">>

Lower == {alphabet[i] : i \in 1..Len(alphabet)}

Upper ==
    {"A","B","C","D","E","F","G","H","I","J","K","L","M",
     "N","O","P","Q","R","S","T","U","V","W","X","Y","Z"}

DigitChars == <<"0","1","2","3","4","5","6","7","8","9">>

Digit == {DigitChars[i] : i \in 1..Len(DigitChars)}

\* \s : [\t\n\f\r ]
IsSpace(c) == c \in {" ", "\t", "\n", "\f", "\r"}

\* \w : [0-9A-Za-z_]
WordChars == Lower \cup Upper \cup Digit \cup {"_"}

IsWord(c) == c \in WordChars

\* [a-zA-Z_$]
IdentStartChars == Lower \cup Upper \cup {"_", "$"}

IsIdentStart(c) == c \in IdentStartChars

\* The identifier class widened by the opening parenthesis.
IdentCharsParen == WordChars \cup {"$", "("}

\* [a-zA-Z0-9_$]
IdentChars == Lower \cup Upper \cup Digit \cup {"_", "$"}

IsIdentChar(c) == c \in IdentChars

\* \b at position i (between s[i-1] and s[i]).
WordBoundary(s, i) ==
    LET before == i > 1 /\ i - 1 <= Len(s) /\ IsWord(s[i-1])
        after  == i >= 1 /\ i <= Len(s) /\ IsWord(s[i])
    IN  before # after

-----------------------------------------------------------------------------
(* Matching helpers.  A matcher gives the index just after the match that  *)
(* starts at i, or 0 when the pattern does not match at i.  No pattern of  *)
(* the source matches the empty string.                                    *)

\* The element of a one-element set.  Writing  The({e(x) : x \in {v}})  for
\* "e(x) where x is v" has v computed once, however often e uses x.
The(S) == CHOOSE x \in S : TRUE

\* The least element of a set of numbers, 0 for the empty set.
Min(S) ==
    The({IF T = {} THEN 0 ELSE CHOOSE x \in T : \A y \in T : x <= y : T \in {S}})

\* Greedy \s* from i: the first index at or after i that holds no \s.
SpanSpace(s, i) ==
    Min({j \in i..(Len(s) + 1) : j = Len(s) + 1 \/ ~IsSpace(s[j])})

\* Greedy c* from i for one character c.
SpanChar(s, i, c) ==
    Min({j \in i..(Len(s) + 1) : j = Len(s) + 1 \/ s[j] # c})

\* The first index at or after i that holds c, or Len(s)+1.
FindChar(s, i, c) ==
    Min({j \in i..(Len(s) + 1) : j = Len(s) + 1 \/ s[j] = c})

\* The literal lit stands at s[i..].
LitAt(s, i, lit) ==
    /\ i >= 1
    /\ i + Len(lit) - 1 <= Len(s)
    /\ \A k \in 1..Len(lit) : s[i + k - 1] = lit[k]

Sub(s, i, e) == SubSeq(s, i, e - 1)

-----------------------------------------------------------------------------
(* The regular expressions of Minify, src/main.go:446-540.                 *)

\* The start of the first "*/" at or after from, or 0.
CloseAt(s, from) ==
    LET ks == {k \in from..(Len(s) - 1) : s[k] = "*" /\ s[k + 1] = "/"}
    IN  IF ks = {} THEN 0 ELSE Min(ks)

\* ^/\*![\s\S]*\*/ : the license expression read greedily, up to the last "*/".
MatchLicenseGreedy(s, i) ==
    LET ks == {k \in 4..(Len(s) - 1) : s[k] = "*" /\ s[k + 1] = "/"}
    IN  IF i = 1 /\ LitAt(s, 1, <<"/", "*", "!">>) /\ ks # {}
        THEN (CHOOSE k \in ks : \A j \in ks : j <= k) + 2 ELSE 0

\* ^/\*![\s\S]*?\*/   (no (?m): ^ is the start of the text)
MatchLicense(s, i) ==
    IF i = 1 /\ LitAt(s, 1, <<"/", "*", "!">>) /\ CloseAt(s, 4) > 0
    THEN CloseAt(s, 4) + 2 ELSE 0

\* //.*   (. is any character but \n)
MatchLineComment(s, i) ==
    IF LitAt(s, i, <<"/", "/">>) THEN FindChar(s, i + 2, "\n") ELSE 0

\* /\*[\s\S]*?\*/
MatchBlockComment(s, i) ==
    IF LitAt(s, i, <<"/", "*">>) /\ CloseAt(s, i + 2) > 0
    THEN CloseAt(s, i + 2) + 2 ELSE 0

\* ^\s+|\s+$   (no (?m): ^ and $ are the ends of the text, not of each line)
MatchEdgeSpace(s, i) ==
    IF ~IsSpace(s[i]) THEN 0
    ELSE IF i = 1 THEN SpanSpace(s, 1)
    ELSE IF SpanSpace(s, i) = Len(s) + 1 THEN Len(s) + 1
    ELSE 0

\* \s{2,}
MatchSpaceRun(s, i) ==
    IF IsSpace(s[i]) /\ SpanSpace(s, i) >= i + 2 THEN SpanSpace(s, i) ELSE 0

\* \s*c\s*  for one (quoted) character c
MatchAround(s, i, c) ==
    LET j == SpanSpace(s, i)
    IN  IF j <= Len(s) /\ s[j] = c THEN SpanSpace(s, j + 1) ELSE 0

\* ;;+
MatchSemicolons(s, i) ==
    IF LitAt(s, i, <<";", ";">>) THEN SpanChar(s, i, ";") ELSE 0

functionKw == <<"f", "u", "n", "c", "t", "i", "o", "n">>

\* function\s+
MatchFunctionKw(s, i) ==
    IF LitAt(s, i, functionKw) /\ i + 8 <= Len(s) /\ IsSpace(s[i + 8])
    THEN SpanSpace(s, i + 8) ELSE 0

\* ([a-zA-Z0-9_$])\s*\(
MatchCallParen(s, i) ==
    LET j == SpanSpace(s, i + 1)
    IN  IF IsIdentChar(s[i]) /\ j <= Len(s) /\ s[j] = "(" THEN j + 1 ELSE 0

\* \n\n+ : a line break that stands alone is left in place.
MatchNewlinesTwo(s, i) ==
    IF s[i] = "\n" /\ SpanChar(s, i, "\n") >= i + 2
    THEN SpanChar(s, i, "\n") ELSE 0

\* \n+
MatchNewlines(s, i) ==
    IF s[i] = "\n" THEN SpanChar(s, i, "\n") ELSE 0

\* ,\s+
MatchCommaSpace(s, i) ==
    IF s[i] = "," /\ i + 1 <= Len(s) /\ IsSpace(s[i + 1])
    THEN SpanSpace(s, i + 1) ELSE 0

\* "[^"]*"|'[^']*'
MatchString(s, i) ==
    IF s[i] \in {"\"", "'"} /\ FindChar(s, i + 1, s[i]) <= Len(s)
    THEN FindChar(s, i + 1, s[i]) + 1 ELSE 0

HasDollar(w) == \E k \in 1..Len(w) : w[k] = "$"

\* \b<original>\b at i.  original is put into the pattern unquoted: a "$" in it
\* is the end-of-text assertion, which the characters after it can never meet.
MatchWord(s, i, w) ==
    IF  /\ ~HasDollar(w)
        /\ WordBoundary(s, i)
        /\ LitAt(s, i, w)
        /\ WordBoundary(s, i + Len(w))
    THEN i + Len(w) ELSE 0

\* A pattern is a record: kind names the expression, arg its parameter (the
\* character, word or literal it is built from), by the replacement text.
Pat(kind, arg, by) == [kind |-> kind, arg |-> arg, by |-> by]

Match(p, s, i) ==
    CASE p.kind = "license"    -> MatchLicense(s, i)
      [] p.kind = "line"       -> MatchLineComment(s, i)
      [] p.kind = "block"      -> MatchBlockComment(s, i)
      [] p.kind = "edge"       -> MatchEdgeSpace(s, i)
      [] p.kind = "run"        -> MatchSpaceRun(s, i)
      [] p.kind = "around"     -> MatchAround(s, i, p.arg)
      [] p.kind = "semicolons" -> MatchSemicolons(s, i)
      [] p.kind = "function"   -> MatchFunctionKw(s, i)
      [] p.kind = "call"       -> MatchCallParen(s, i)
      [] p.kind = "newlines"   -> MatchNewlines(s, i)
      [] p.kind = "comma"      -> MatchCommaSpace(s, i)
      [] p.kind = "word"       -> MatchWord(s, i, p.arg)
      [] p.kind = "literal"    -> IF LitAt(s, i, p.arg) THEN i + Len(p.arg) ELSE 0

\* The replacement text taken as written, "$1(" expanded to nothing.
ReplacementUnexpanded(p, s, i, e) == p.by

\* The text a match at [i, e) is replaced by; "$1(" keeps the captured character.
Replacement(p, s, i, e) ==
    IF p.kind = "call" THEN <<s[i], "(">> ELSE p.by

\* regexp.ReplaceAllString / strings.Replace(.., -1): scan left to right, at
\* each position take the match there, write its replacement, go on after it.
\* The leftmost position at or after i where p matches, or 0.
\* [at, end]; at = 0 when there is none.
NextMatch(p, s, i) ==
    The({ [at |-> m, end |-> IF m = 0 THEN 0 ELSE Match(p, s, m)]
          : m \in {Min({j \in i..Len(s) : Match(p, s, j) > 0})} })

\* The text from i on with every match replaced; n is the next match.
RECURSIVE ReplaceFrom(_, _, _)
ReplaceFrom(p, s, i) ==
    The({ IF n.at = 0 THEN SubSeq(t, i, Len(t))
          ELSE SubSeq(t, i, n.at - 1) \o Replacement(q, t, n.at, n.end)
                  \o ReplaceFrom(q, t, n.end)
          : n \in {NextMatch(p, s, i)}, q \in {p}, t \in {s} })

ReplaceAll(p, s) ==
    The({ IF Len(t) = 0 THEN <<>> ELSE ReplaceFrom(q, t, 1) : q \in {p}, t \in {s} })

-----------------------------------------------------------------------------
(* The stages of Minify, src/main.go:446-540.                              *)

\* re.FindString(result): the leading /*! ... */ block, or "".
FindLicense(s) ==
    The({ IF e > 0 THEN Sub(s, 1, e) ELSE <<>>
          : e \in {IF Len(s) > 0 THEN MatchLicense(s, 1) ELSE 0} })

RemoveLicense(s) == ReplaceAll(Pat("license", <<>>, <<>>), s)

\* The patterns Minify applies after license preservation, each with its
\* replacement text, in the order of the source.
lineComment == Pat("line", <<>>, <<>>)

blockComment == Pat("block", <<>>, <<>>)

edgeSpace == Pat("edge", <<>>, <<>>)

spaceRun == Pat("run", <<>>, <<" ">>)

operators == <<"+", "-", "*", "/", "=", "<", ">", "!", "?", ":", "&", "|", ";", ",">>

\* The operator patterns with a blank put after the operator.
AroundPadded(cs) == [k \in 1..Len(cs) |-> Pat("around", cs[k], <<cs[k], " ">>)]

\* for _, op := range operators: \s*<op>\s* replaced by op, one pattern per op.
Around(cs) == [k \in 1..Len(cs) |-> Pat("around", cs[k], <<cs[k]>>)]

semicolons == Pat("semicolons", <<>>, <<";">>)

functionSpace == Pat("function", <<>>, functionKw \o <<" ">>)

callParen == Pat("call", <<>>, <<>>)

newlines == Pat("newlines", <<>>, <<>>)

commaSpace == Pat("comma", <<>>, <<",">>)

brackets == <<"{", "}", "[", "]", "(", ")">>

\* The comment stripper: line comments first, then block comments.
commentStages == <<lineComment, blockComment>>

\* Whitespace normalisation as the code runs it before the compactor.
spaceStages == <<edgeSpace, spaceRun>>

\* The compactor, in the order of the source (newline removal sits inside it).
compactStages ==
    Around(operators)
       \o <<semicolons, functionSpace, callParen, newlines, commaSpace>>
       \o Around(brackets)

stages == commentStages \o spaceStages \o compactStages

\* result = re.ReplaceAllString(result, ...) for ps[lo], ..., ps[hi] in turn.
\* The range is cut in two, the first half run to its end before the second
\* half starts on its result: the nesting stays logarithmic in hi - lo.
RECURSIVE ApplyRange(_, _, _, _)
ApplyRange(ps, lo, hi, s) ==
    IF lo > hi THEN s
    ELSE IF lo = hi THEN ReplaceAll(ps[lo], s)
    ELSE The({ ApplyRange(ps, mid + 1, hi, t)
               : mid \in {(lo + hi) \div 2},
                 t \in {ApplyRange(ps, lo, (lo + hi) \div 2, s)} })

Apply(ps, s) == ApplyRange(ps, 1, Len(ps), s)

StripComments(s) == Apply(commentStages, s)

NormalizeSpace(s) == Apply(spaceStages, s)

Compact(s) == Apply(compactStages, s)

\* Everything Minify does between license extraction and the renamer.
MinifyBody(s) == Apply(stages, s)

-----------------------------------------------------------------------------
(* generateVarName and shortenVariableNames, src/main.go:394-443.          *)

\* fmt's %d of a non-negative int.
RECURSIVE Decimal(_)
Decimal(n) ==
    IF n < 10 THEN <<DigitChars[n + 1]>>
    ELSE Decimal(n \div 10) \o <<DigitChars[(n % 10) + 1]>>

\* A generator that cycles through the alphabet and appends no suffix.
generateVarNameCyclic(n) ==
    [name |-> <<alphabet[(n % 26) + 1]>>, varCounter |-> n + 1]

\* generateVarName with m.varCounter = n: the name returned and the counter
\* it leaves.
generateVarName(n) ==
    LET suffix == n \div 26
        char   == alphabet[(n % 26) + 1]
    IN  [name       |-> IF suffix = 0 THEN <<char>> ELSE <<char>> \o Decimal(suffix),
         varCounter |-> n + 1]

\* fmt.Sprintf("__STR_%d__", n)
Placeholder(n) ==
    <<"_", "_", "S", "T", "R", "_">> \o Decimal(n) \o <<"_", "_">>

\* Shield: each literal found becomes Placeholder(len(stringLiterals)).
\* Gives [code, lits]; lits[n+1] is the literal Placeholder(n) stands for.
\* m is the next literal, rest what the scan gives from its end on.
RECURSIVE ShieldFrom(_, _, _)
ShieldFrom(s, i, lits) ==
    The({ IF m = 0 THEN [code |-> SubSeq(s, i, Len(s)), lits |-> lits]
          ELSE The({ [code |-> SubSeq(s, i, m - 1) \o Placeholder(Len(lits))
                                  \o rest.code,
                      lits |-> rest.lits]
                     : rest \in {ShieldFrom(s, MatchString(s, m),
                                    Append(lits, Sub(s, m, MatchString(s, m))))} })
          : m \in {Min({j \in i..Len(s) : MatchString(s, j) > 0})} })

Shield(s) ==
    The({ IF Len(t) = 0 THEN [code |-> <<>>, lits |-> <<>>]
          ELSE ShieldFrom(t, 1, <<>>) : t \in {s} })

\* Greedy [a-zA-Z0-9_$]* from i.
SpanIdent(s, i) ==
    Min({j \in i..(Len(s) + 1) : j = Len(s) + 1 \/ ~IsIdentChar(s[j])})

keywords == << <<"v", "a", "r">>, <<"l", "e", "t">>, <<"c", "o", "n", "s", "t">> >>

\* \b(var|let|const)\s+([a-zA-Z_$][a-zA-Z0-9_$]*)\b at i:
\* [end, kw, original], end = 0 when there is no match.
NoDecl == [end |-> 0, kw |-> <<>>, original |-> <<>>]

\* The identifier after the keyword kw that stands at i: \s+, then the longest
\* run of identifier characters from k that ends at a \b.
DeclAfter(s, i, kw) ==
    The({ IF i + Len(kw) > Len(s) \/ ~IsSpace(s[i + Len(kw)]) THEN NoDecl
          ELSE IF k > Len(s) \/ ~IsIdentStart(s[k]) THEN NoDecl
          ELSE The({ IF es = {} THEN NoDecl
                     ELSE The({ [end |-> e, kw |-> kw, original |-> Sub(s, k, e)]
                                : e \in {CHOOSE x \in es : \A y \in es : y <= x} })
                     : es \in { {e \in (k + 1)..SpanIdent(s, k + 1) :
                                    WordBoundary(s, e)} } })
          : k \in {SpanSpace(s, i + Len(kw))} })

MatchDecl(s, i) ==
    The({ IF ~WordBoundary(s, i) \/ n = 0 THEN NoDecl
          ELSE DeclAfter(s, i, keywords[n])
          : n \in {Min({k \in 1..Len(keywords) : LitAt(s, i, keywords[k])})} })

\* The table update with the test for an existing entry left out.
AssignAlways(original, vm, vc, names) ==
    The({ [short      |-> gen.name,
           varMap     |-> [o \in DOMAIN vm \cup {original} |->
                             IF o = original THEN gen.name ELSE vm[o]],
           varCounter |-> gen.varCounter,
           names      |-> Append(names, gen.name)]
          : gen \in {generateVarName(vc)} })

\* Declare: the callback of ReplaceAllStringFunc, run at each declaration from
\* left to right.  Gives [code, varMap, varCounter, names].
\* The callback's table update for one declaration of original:
\* if _, exists := m.varMap[original]; !exists { m.varMap[original] = m.generateVarName() }
Assign(original, vm, vc, names) ==
    IF original \in DOMAIN vm
    THEN [short |-> vm[original], varMap |-> vm, varCounter |-> vc, names |-> names]
    ELSE The({ [short      |-> gen.name,
                varMap     |-> [o \in DOMAIN vm \cup {original} |->
                                  IF o = original THEN gen.name ELSE vm[o]],
                varCounter |-> gen.varCounter,
                names      |-> Append(names, gen.name)]
               : gen \in {generateVarName(vc)} })

\* m is the next declaration, d its match, a the table after it, rest what the
\* scan gives from the end of the match on.
RECURSIVE DeclareFrom(_, _, _, _, _)
DeclareFrom(s, i, vm, vc, names) ==
    The({ IF m = 0
          THEN [code |-> SubSeq(s, i, Len(s)), varMap |-> vm, varCounter |-> vc,
                names |-> names]
          ELSE The({ The({ The({ [rest EXCEPT !.code =
                                    SubSeq(s, i, m - 1) \o d.kw \o <<" ">>
                                       \o a.short \o rest.code]
                                 : rest \in {DeclareFrom(s, d.end, a.varMap,
                                                a.varCounter, a.names)} })
                           : a \in {Assign(d.original, vm, vc, names)} })
                     : d \in {MatchDecl(s, m)} })
          : m \in {Min({j \in i..Len(s) : MatchDecl(s, j).end > 0})} })

Declare(s, vm, vc) ==
    The({ IF Len(t) = 0
          THEN [code |-> <<>>, varMap |-> vm, varCounter |-> vc, names |-> <<>>]
          ELSE DeclareFrom(t, 1, vm, vc, <<>>) : t \in {s} })

\* re.ReplaceAllString(code, short) for one entry of varMap.
ReplaceWord(s, w, short) == ReplaceAll(Pat("word", w, short), s)

\* Substitute: for original, short := range m.varMap, in the order `order`.
RECURSIVE SubstituteFrom(_, _, _, _)
SubstituteFrom(s, vm, order, k) ==
    IF k > Len(order) THEN s
    ELSE The({ SubstituteFrom(t, vm, order, k + 1)
               : t \in {ReplaceWord(s, order[k], vm[order[k]])} })

Substitute(s, vm, order) == SubstituteFrom(s, vm, order, 1)

\* strings.Replace(code, placeholder, str, -1)
ReplaceLit(s, lit, by) == ReplaceAll(Pat("literal", lit, by), s)

\* Unshield: for placeholder, str := range stringLiterals, in the order `order`
\* (a sequence of indices of lits).
RECURSIVE RestoreFrom(_, _, _, _)
RestoreFrom(s, lits, order, k) ==
    IF k > Len(order) THEN s
    ELSE The({ RestoreFrom(t, lits, order, k + 1)
               : t \in {ReplaceLit(s, Placeholder(order[k] - 1), lits[order[k]])} })

Restore(s, lits, order) == RestoreFrom(s, lits, order, 1)

\* The orders in which a range over a Go map with key set S may run.
Orders(S) ==
    UNION { {p \in [1..Cardinality(T) -> T] :
                \A a, b \in DOMAIN p : p[a] = p[b] => a = b} : T \in {S} }

\* The number of c among the first k characters of w.
CountOf(w, k, c) == Cardinality({j \in 1..k : w[j] = c})

\* regexp.MustCompile(`\b` + original + `\b`) returns: the pattern parses.  Of
\* the characters of the inputs only the parentheses can make a pattern that
\* does not parse ("missing closing )", "unexpected )"); letters, digits, "_"
\* and "$" (the end-of-text assertion) always parse.
Compiles(original) ==
    /\ \A k \in 1..Len(original) :
          CountOf(original, k, ")") <= CountOf(original, k, "(")
    /\ CountOf(original, Len(original), ")") = CountOf(original, Len(original), "(")

\* The range over varMap reaches a pattern on which MustCompile panics.
SubstitutePanics(vm) == \E original \in DOMAIN vm : ~Compiles(original)

\* shortenVariableNames(code) on a Minifier whose table is vm and counter vc,
\* with the two map ranges run in the orders vorder and sorder.
shortenVariableNames(code, vm, vc, vorder, sorder) ==
    The({ The({ Restore(Substitute(d.code, d.varMap, vorder), sh.lits, sorder)
                : d \in {Declare(sh.code, vm, vc)} })
          : sh \in {Shield(code)} })

-----------------------------------------------------------------------------
(* Inputs: concatenations of at most MaxFrags fragments.                   *)

MaxFrags == 4

MaxRenameFrags == 5

MaxLicFrags == 4

MaxGen == 270

MaxTotalFrags == 3

MaxLenFrags == 4

MaxBracketFrags == 3

MaxReuseFrags == 3

MaxOpFrags == 3

MaxSpaceFrags == 3

\* The latest modification time a file of the directory gets.
MaxTime == 3

RECURSIVE Flatten(_)
Flatten(fs) == IF fs = <<>> THEN <<>> ELSE Head(fs) \o Flatten(Tail(fs))

TextsOf(F, n) == {Flatten(fs) : fs \in UNION {[1..k -> F] : k \in 0..n}}

letB == <<"l", "e", "t", " ", "b">>

letA == <<"l", "e", "t", " ", "a">>

StripFrags ==
    { <<"/", "*", "!">>, <<"/", "*">>, <<"*", "/">>, <<"/", "/">>,
      <<"\n">>, <<" ">>, <<";">>, letB }

LicFrags ==
    { <<"*", "/">>, <<"/", "/">>, <<"/", "*", "!">>, <<"\n">>, <<" ">>, letB }

RenameFrags ==
    { letB, letA, <<"a">>, <<"b">>, <<" ">>, <<"\"">>, <<"\\", "\"">> }

\* The input file of the README's examples, src/main.go:806-813.
readmeInput ==
    << "f", "u", "n", "c", "t", "i", "o", "n", " ", "c", "a", "l", "c", "u",
       "l", "a", "t", "e", "S", "u", "m", "(", "a", ",", " ", "b", ")", " ",
       "{", "\n", " ", " ", " ", " ", "/", "/", " ", "T", "h", "i", "s", " ",
       "i", "s", " ", "a", " ", "c", "o", "m", "m", "e", "n", "t", "\n", " ",
       " ", " ", " ", "c", "o", "n", "s", "t", " ", "r", "e", "s", "u", "l",
       "t", " ", "=", " ", "a", " ", "+", " ", "b", ";", "\n", " ", " ", " ",
       " ", "r", "e", "t", "u", "r", "n", " ", "r", "e", "s", "u", "l", "t",
       ";", "\n", "}" >>

\* The README's output for it under -shorten-vars, src/main.go:822-825.
readmeShortened ==
    << "f", "u", "n", "c", "t", "i", "o", "n", " ", "c", "a", "l", "c", "u",
       "l", "a", "t", "e", "S", "u", "m", "(", "a", ",", "b", ")", "{", "c",
       "o", "n", "s", "t", " ", "c", "=", "a", "+", "b", ";", "r", "e", "t",
       "u", "r", "n", " ", "c", ";", "}" >>

\* The input of TestMinifierVariableShortening, src/minifier_test.go:68-79.
testShortenInput ==
    << "c", "o", "n", "s", "t", " ", "l", "o", "n", "g", "V", "a", "r", "i",
       "a", "b", "l", "e", "N", "a", "m", "e", " ", "=", " ", "4", "2", ";",
       "\n", "\t", "l", "e", "t", " ", "a", "n", "o", "t", "h", "e", "r",
       "L", "o", "n", "g", "N", "a", "m", "e", " ", "=", " ", "l", "o", "n",
       "g", "V", "a", "r", "i", "a", "b", "l", "e", "N", "a", "m", "e", " ",
       "+", " ", "1", ";" >>

examples == {readmeInput, testShortenInput}

\* The six brackets, with the whitespace, comment markers and identifier
\* character the comment and bracket patterns of Minify act on.
BracketFrags ==
    {<<"{">>, <<"}">>, <<"[">>, <<"]">>, <<"(">>, <<")">>, <<" ">>, <<"\n">>,
     <<"/", "/">>, <<"/", "*">>, <<"*", "/">>, <<"b">>}

\* The fourteen operators, with whitespace, a name and the keyword function.
OpFrags ==
    {<<operators[k]>> : k \in 1..Len(operators)}
        \cup {<<" ">>, <<"\n">>, <<"b">>, functionKw}

\* Four of the characters of \s, with a name, a semicolon, a quote and a
\* declaration.
SpaceFrags ==
    {<<" ">>, <<"\n">>, <<"\t">>, <<"\r">>, <<"b">>, <<";">>, <<"\"">>, letB}

\* Pieces of declarations whose identifiers hold "$" and of calls.
TotalFrags == {letB, <<"a">>, <<"$">>, <<"(">>, <<" ">>, <<"\n">>}

-----------------------------------------------------------------------------
(* State machine.                                                          *)

\* The paths of the directory, in the order Glob returns them.
aJs == <<"a", ".", "j", "s">>

aMinJs == <<"a", ".", "m", "i", "n", ".", "j", "s">>

bJs == <<"b", ".", "j", "s">>

bMinJs == <<"b", ".", "m", "i", "n", ".", "j", "s">>

Paths == <<aJs, aMinJs, bJs, bMinJs>>

PathSet == {Paths[k] : k \in 1..Len(Paths)}

\* No program runs: the Minifier is used on its own.
DriverIdle ==
    /\ mode = "lib"
    /\ dir = <<>>
    /\ files = <<>>
    /\ stats = [buf |-> <<>>, cap |-> 0, closed |-> FALSE]
    /\ mainpc = "none"
    /\ wpc = [p \in PathSet |-> "none"]
    /\ closerpc = "none"
    /\ wg = 0
    /\ allStats = <<>>
    /\ fileModTimes = [p \in PathSet |-> 0]
    /\ cursor = 0
    /\ info = 0
    /\ runs = [p \in PathSet |-> 0]
    /\ diag = <<>>
    /\ debugFile = FALSE
    /\ exit = "running"

\* NewMinifier(input, preserveLicense, shortenVars), src/main.go:384-392.
NewMinifier(in, pl, sv) ==
    /\ DriverIdle
    /\ input = in
    /\ preserveLicense = pl
    /\ shortenVars = sv
    /\ varMap = <<>>
    /\ varCounter = 0
    /\ result = <<>>
    /\ license = <<>>
    /\ shielded = <<>>
    /\ generated = <<>>
    /\ pc = "new"

Init ==
    \E in \in TextsOf(StripFrags, MaxFrags), pl \in BOOLEAN, sv \in BOOLEAN :
        NewMinifier(in, pl, sv)

RenameInit ==
    \E in \in TextsOf(RenameFrags, MaxRenameFrags) \cup examples :
        NewMinifier(in, FALSE, TRUE)

\* Inputs that open with the license marker, preserve-license set.
LicenseInit ==
    \E rest \in TextsOf(LicFrags, MaxLicFrags), sv \in BOOLEAN :
        NewMinifier(<<"/", "*", "!">> \o rest, TRUE, sv)

GenInit == NewMinifier(<<>>, FALSE, FALSE)

\* Inputs with and without a leading license block, under every combination of
\* the options.
LengthInit ==
    \E in \in TextsOf(LicFrags, MaxLenFrags), pl \in BOOLEAN, sv \in BOOLEAN :
        NewMinifier(in, pl, sv)

BracketInit ==
    \E in \in TextsOf(BracketFrags, MaxBracketFrags), sv \in BOOLEAN :
        NewMinifier(in, FALSE, sv)

ReuseInit ==
    \E in \in TextsOf(RenameFrags, MaxReuseFrags) \cup examples, sv \in BOOLEAN :
        NewMinifier(in, FALSE, sv)

\* Both options off.
OpInit == \E in \in TextsOf(OpFrags, MaxOpFrags) : NewMinifier(in, FALSE, FALSE)

\* No input opens with the license marker: nothing is ever retained.
SpaceInit ==
    \E in \in TextsOf(SpaceFrags, MaxSpaceFrags), pl \in BOOLEAN, sv \in BOOLEAN :
        NewMinifier(in, pl, sv)

TotalInit ==
    \E in \in TextsOf(TotalFrags, MaxTotalFrags), pl \in BOOLEAN, sv \in BOOLEAN :
        NewMinifier(in, pl, sv)

\* License preservation with a second line break after the retained block.
PreserveLicenseTwoBreaks(in, pl) ==
    The({ IF found # <<>>
          THEN [licenseComment |-> found \o <<"\n", "\n">>,
                rest |-> RemoveLicense(in)]
          ELSE [licenseComment |-> <<>>, rest |-> in]
          : found \in {IF pl THEN FindLicense(in) ELSE <<>>} })

\* m.Minify(), src/main.go:446-540.
\* The text after license preservation, src/main.go:451-460: the retained
\* block with its line break (licenseComment) and what is left of the input.
PreserveLicense(in, pl) ==
    The({ IF found # <<>>
          THEN [licenseComment |-> found \o <<"\n">>, rest |-> RemoveLicense(in)]
          ELSE [licenseComment |-> <<>>, rest |-> in]
          : found \in {IF pl THEN FindLicense(in) ELSE <<>>} })

\* One call of m.Minify() that ends at `after` when it returns; a panic of
\* MustCompile in the range over varMap ends the call without a result.
MinifyCall(after) ==
    /\ \E lic \in {PreserveLicense(input, preserveLicense)} :
       \E body \in {MinifyBody(lic.rest)} :
          /\ license' = lic.licenseComment
          /\ IF shortenVars
             THEN \E sh \in {Shield(body)} :
                  \E d \in {Declare(sh.code, varMap, varCounter)} :
                     /\ IF SubstitutePanics(d.varMap)
                        THEN /\ result' = result
                             /\ pc' = "panic"
                        ELSE /\ \E vorder \in Orders(DOMAIN d.varMap),
                                   sorder \in Orders(1..Len(sh.lits)) :
                                    result' = lic.licenseComment \o
                                        shortenVariableNames(body, varMap,
                                            varCounter, vorder, sorder)
                             /\ pc' = after
                     /\ varMap' = d.varMap
                     /\ varCounter' = d.varCounter
                     /\ generated' = generated \o d.names
                     /\ shielded' = sh.lits
             ELSE /\ result' = lic.licenseComment \o body
                  /\ pc' = after
                  /\ UNCHANGED <<varMap, varCounter, generated, shielded>>
    /\ UNCHANGED <<input, preserveLicense, shortenVars>>
    /\ UNCHANGED dvars

\* The first call on a Minifier.
Minify ==
    /\ pc = "new"
    /\ MinifyCall("done")

\* A further call of m.Minify() on a Minifier whose Minify has returned: the
\* fields are as the earlier call left them.
MinifyAgain ==
    /\ pc \in {"done", "again"}
    /\ MinifyCall("again")

\* minifier := NewMinifier(string(content), ...) of a later processFile for
\* the same file: a new Minifier takes the place of the used one.
Construct ==
    /\ pc \in {"done", "again"}
    /\ varMap' = <<>>
    /\ varCounter' = 0
    /\ result' = <<>>
    /\ license' = <<>>
    /\ shielded' = <<>>
    /\ generated' = <<>>
    /\ pc' = "new"
    /\ UNCHANGED <<input, preserveLicense, shortenVars>>
    /\ UNCHANGED dvars

\* One direct call of m.generateVarName() on a fresh Minifier.
GenerateVarName ==
    /\ pc = "new"
    /\ varCounter < MaxGen
    /\ LET g == generateVarName(varCounter)
       IN  /\ generated' = Append(generated, g.name)
           /\ varCounter' = g.varCounter
    /\ UNCHANGED <<input, preserveLicense, shortenVars, varMap, result,
                   license, shielded, pc>>
    /\ UNCHANGED dvars

Next == Minify

GenNext == GenerateVarName

ReuseNext == Minify \/ MinifyAgain \/ Construct

Spec == Init /\ [][Next]_vars

RenameSpec == RenameInit /\ [][Next]_vars

LicenseSpec == LicenseInit /\ [][Next]_vars

GenSpec == GenInit /\ [][GenNext]_vars

LengthSpec == LengthInit /\ [][Next]_vars

BracketSpec == BracketInit /\ [][Next]_vars

ReuseSpec == ReuseInit /\ [][ReuseNext]_vars

OpSpec == OpInit /\ [][Next]_vars

SpaceSpec == SpaceInit /\ [][Next]_vars

\* A call of Minify that has begun runs to its end: nothing else runs in the
\* goroutine that made it.
TotalSpec == TotalInit /\ [][Next]_vars /\ WF_vars(Minify)

-----------------------------------------------------------------------------
(* The program: processFile, watchDirectory and main.                      *)

\* strings.HasSuffix(s, suffix)
HasSuffix(s, suffix) ==
    /\ Len(s) >= Len(suffix)
    /\ SubSeq(s, Len(s) - Len(suffix) + 1, Len(s)) = suffix

\* strings.TrimSuffix(s, suffix)
TrimSuffix(s, suffix) ==
    IF HasSuffix(s, suffix) THEN SubSeq(s, 1, Len(s) - Len(suffix)) ELSE s

\* filepath.Ext(path): from the last dot on, empty when there is no dot.
Ext(path) ==
    LET dots == {k \in 1..Len(path) : path[k] = "."}
    IN  IF dots = {} THEN <<>>
        ELSE SubSeq(path, CHOOSE k \in dots : \A j \in dots : j <= k, Len(path))

dotMinJs == <<".", "m", "i", "n", ".", "j", "s">>

\* strings.TrimSuffix(inputPath, ext) + ".min" + ext
DefaultOutput(inputPath) ==
    TrimSuffix(inputPath, Ext(inputPath)) \o <<".", "m", "i", "n">>
        \o Ext(inputPath)

\* filepath.Glob(filepath.Join(dir, "*.js")): the paths that exist, sorted.
Glob(d) ==
    LET Exists(p) == d[p].exists /\ HasSuffix(p, <<".", "j", "s">>)
    IN  SelectSeq(Paths, Exists)

\* ioutil.ReadFile(path)
ReadFile(d, path) ==
    IF d[path].exists /\ d[path].readable
    THEN [err |-> FALSE, content |-> d[path].text]
    ELSE [err |-> TRUE, content |-> <<>>]

\* ioutil.WriteFile(path, data, 0644)
WriteFile(d, path, data) ==
    IF d[path].writable
    THEN [err |-> FALSE,
          dir |-> [d EXCEPT ![path] = [@ EXCEPT !.exists = TRUE, !.text = data]]]
    ELSE [err |-> TRUE, dir |-> d]

\* What NewMinifier(in, pl, sv).Minify() can return.
MinifyOutputs(in, pl, sv) ==
    UNION { UNION {
        IF sv
        THEN UNION { { lic.licenseComment \o
                           shortenVariableNames(body, <<>>, 0, vorder, sorder)
                       : vorder \in Orders(DOMAIN Declare(sh.code, <<>>, 0).varMap),
                         sorder \in Orders(1..Len(sh.lits)) }
                     : sh \in {Shield(body)} }
        ELSE {lic.licenseComment \o body}
        : body \in {MinifyBody(lic.rest)} }
        : lic \in {PreserveLicense(in, pl)} }

\* The values minifier.Minify() can have in processFile(path, ...).
Minified(path) ==
    IF ReadFile(dir, path).err THEN {<<>>}
    ELSE MinifyOutputs(ReadFile(dir, path).content, preserveLicense, shortenVars)

\* processFile with a record sent on stats after a failed read or write too.
processFileAlwaysSends(inputPath, outputPath, d, minified) ==
    LET r    == ReadFile(d, inputPath)
        outp == IF outputPath = <<>> THEN DefaultOutput(inputPath) ELSE outputPath
        w    == WriteFile(d, outp, minified)
    IN  [dir  |-> IF r.err THEN d ELSE w.dir,
         sent |-> << [InputFile    |-> inputPath,
                      OutputFile   |-> outp,
                      OriginalSize |-> Len(r.content),
                      MinifiedSize |-> Len(minified)] >>,
         log  |-> <<>>]

\* processFile(inputPath, outputPath, ...) on the directory d, minified being
\* what Minify returns: the directory after it, the record it sends on stats
\* (none after a failed read or write) and the lines it logs.
processFile(inputPath, outputPath, d, minified) ==
    LET r    == ReadFile(d, inputPath)
        outp == IF outputPath = <<>> THEN DefaultOutput(inputPath) ELSE outputPath
        w    == WriteFile(d, outp, minified)
    IN  IF r.err
        THEN [dir |-> d, sent |-> <<>>, log |-> <<"Error reading input file">>]
        ELSE IF w.err
        THEN [dir |-> d, sent |-> <<>>, log |-> <<"Error writing output file">>]
        ELSE [dir  |-> w.dir,
              sent |-> << [InputFile    |-> inputPath,
                           OutputFile   |-> outp,
                           OriginalSize |-> Len(r.content),
                           MinifiedSize |-> Len(minified)] >>,
              log  |-> <<>>]

\* debugLog(...): the lines go to debug.log when init has opened it.
DebugLog(lines) == IF debugFile THEN diag \o lines ELSE diag

\* The state of the program when main starts in mode m on the paths fl. The
\* input files a.js, b.js may be unreadable, the output paths a.min.js,
\* b.min.js unwritable; b.min.js does not exist yet.
Text(p) ==
    CASE p = aJs -> <<"l", "e", "t", " ", "b", " ", "\n">>
      [] p = bJs -> <<"/", "/", "b", "\n", "b", "(", " ">>
      [] OTHER   -> <<"b">>

DriverInit(m, fl) ==
    /\ mode = m
    /\ \E ra, rb, wa, wb \in BOOLEAN :
          dir = [p \in PathSet |->
                   [exists   |-> p # bMinJs,
                    readable |-> CASE p = aJs -> ra [] p = bJs -> rb [] OTHER -> TRUE,
                    writable |-> CASE p = aMinJs -> wa [] p = bMinJs -> wb
                                   [] OTHER -> TRUE,
                    mtime    |-> IF p = bMinJs THEN 0 ELSE 1,
                    text     |-> Text(p)]]
    /\ files = fl
    /\ stats = [buf |-> <<>>, cap |-> 0, closed |-> FALSE]
    /\ mainpc = "start"
    /\ wpc = [p \in PathSet |-> "none"]
    /\ closerpc = "none"
    /\ wg = 0
    /\ allStats = <<>>
    /\ fileModTimes = [p \in PathSet |-> 0]
    /\ cursor = 0
    /\ info = 0
    /\ runs = [p \in PathSet |-> 0]
    /\ diag = <<>>
    /\ debugFile \in BOOLEAN
    /\ exit = "running"
    /\ input = <<>>
    /\ preserveLicense = FALSE
    /\ shortenVars \in BOOLEAN
    /\ varMap = <<>>
    /\ varCounter = 0
    /\ result = <<>>
    /\ license = <<>>
    /\ shielded = <<>>
    /\ generated = <<>>
    /\ pc = "main"

\* main with -input naming a file (or nothing): src/main.go:637-646, 696-698.
MainFile ==
    /\ exit = "running"
    /\ mode = "file"
    /\ mainpc = "start"
    /\ IF files = <<>>
       THEN /\ diag' = DebugLog(<<"Please provide an input file or directory">>)
            /\ mainpc' = "end"
            /\ exit' = "returned"
            /\ UNCHANGED <<dir, stats, runs>>
       ELSE IF ~dir[files[1]].exists
       THEN /\ diag' = DebugLog(<<"Error accessing input path">>)
            /\ mainpc' = "end"
            /\ exit' = "returned"
            /\ UNCHANGED <<dir, stats, runs>>
       ELSE \E minified \in Minified(files[1]) :
            \E r \in {processFile(files[1], <<>>, dir, minified)} :
               /\ dir' = r.dir
               /\ stats' = [buf |-> r.sent, cap |-> 1, closed |-> FALSE]
               /\ runs' = [runs EXCEPT ![files[1]] = @ + 1]
               /\ diag' = DebugLog(r.log)
               /\ mainpc' = "recv"
               /\ UNCHANGED exit
    /\ UNCHANGED <<mvars, mode, files, wpc, closerpc, wg, allStats,
                   fileModTimes, cursor, info, debugFile>>

\* stat := <-stats and the report, src/main.go:699-711.
MainFileRecv ==
    /\ exit = "running"
    /\ mode = "file"
    /\ mainpc = "recv"
    /\ stats.buf # <<>>
    /\ allStats' = Append(allStats, Head(stats.buf))
    /\ stats' = [stats EXCEPT !.buf = Tail(@)]
    /\ diag' = DebugLog(<<"Processed">>)
    /\ mainpc' = "end"
    /\ exit' = "returned"
    /\ UNCHANGED <<mvars, mode, dir, files, wpc, closerpc, wg, fileModTimes,
                   cursor, info, runs, debugFile>>

\* main on a directory without -watch: the Glob and the channel,
\* src/main.go:653-660.
MainGlob ==
    /\ exit = "running"
    /\ mode = "batch"
    /\ mainpc = "start"
    /\ files' = Glob(dir)
    /\ stats' = [buf |-> <<>>, cap |-> Len(Glob(dir)), closed |-> FALSE]
    /\ wg' = 0
    /\ cursor' = 1
    /\ mainpc' = "spawn"
    /\ UNCHANGED <<mvars, mode, dir, wpc, closerpc, allStats, fileModTimes,
                   info, runs, diag, debugFile, exit>>

\* One round of for _, file := range files: a .min.js file is passed over,
\* any other gets wg.Add(1) and a goroutine of its own, src/main.go:662-672.
MainSpawn ==
    /\ exit = "running"
    /\ mode = "batch"
    /\ mainpc = "spawn"
    /\ cursor <= Len(files)
    /\ IF HasSuffix(files[cursor], dotMinJs)
       THEN UNCHANGED <<wg, wpc>>
       ELSE /\ wg' = wg + 1
            /\ wpc' = [wpc EXCEPT ![files[cursor]] = "run"]
    /\ cursor' = cursor + 1
    /\ UNCHANGED <<mvars, mode, dir, files, stats, mainpc, closerpc, allStats,
                   fileModTimes, info, runs, diag, debugFile, exit>>

\* After the loop: go func() { wg.Wait(); close(stats) }(), and main goes on
\* to its range over stats, src/main.go:674-679.
MainGoCloser ==
    /\ exit = "running"
    /\ mode = "batch"
    /\ mainpc = "spawn"
    /\ cursor > Len(files)
    /\ closerpc' = "wait"
    /\ mainpc' = "range"
    /\ UNCHANGED <<mvars, mode, dir, files, stats, wpc, wg, allStats,
                   fileModTimes, cursor, info, runs, diag, debugFile, exit>>

\* The goroutine of one file: processFile(file, "", ...), src/main.go:668-671.
\* A send on a full channel waits.
Worker(p) ==
    /\ exit = "running"
    /\ mode = "batch"
    /\ wpc[p] = "run"
    /\ \E minified \in Minified(p) :
       \E r \in {processFile(p, <<>>, dir, minified)} :
          /\ Len(stats.buf) + Len(r.sent) <= stats.cap
          /\ dir' = r.dir
          /\ stats' = [stats EXCEPT !.buf = @ \o r.sent]
          /\ runs' = [runs EXCEPT ![p] = @ + 1]
          /\ diag' = DebugLog(r.log)
    /\ wpc' = [wpc EXCEPT ![p] = "deferred"]
    /\ UNCHANGED <<mvars, mode, files, mainpc, closerpc, wg, allStats,
                   fileModTimes, cursor, info, debugFile, exit>>

\* defer wg.Done(), src/main.go:669.
WorkerDone(p) ==
    /\ exit = "running"
    /\ wpc[p] = "deferred"
    /\ wg' = wg - 1
    /\ wpc' = [wpc EXCEPT ![p] = "done"]
    /\ UNCHANGED <<mvars, mode, dir, files, stats, mainpc, closerpc, allStats,
                   fileModTimes, cursor, info, runs, diag, debugFile, exit>>

\* close(stats) with no wg.Wait() before it.
CloserNoWait ==
    /\ exit = "running"
    /\ closerpc = "wait"
    /\ stats' = [stats EXCEPT !.closed = TRUE]
    /\ closerpc' = "done"
    /\ UNCHANGED <<mvars, mode, dir, files, mainpc, wpc, wg, allStats,
                   fileModTimes, cursor, info, runs, diag, debugFile, exit>>

\* wg.Wait(); close(stats), src/main.go:674-677.
Closer ==
    /\ exit = "running"
    /\ closerpc = "wait"
    /\ wg = 0
    /\ stats' = [stats EXCEPT !.closed = TRUE]
    /\ closerpc' = "done"
    /\ UNCHANGED <<mvars, mode, dir, files, mainpc, wpc, wg, allStats,
                   fileModTimes, cursor, info, runs, diag, debugFile, exit>>

\* One round of for stat := range stats, src/main.go:680-689.
MainRange ==
    /\ exit = "running"
    /\ mainpc = "range"
    /\ stats.buf # <<>>
    /\ allStats' = Append(allStats, Head(stats.buf))
    /\ stats' = [stats EXCEPT !.buf = Tail(@)]
    /\ diag' = DebugLog(<<"Processed">>)
    /\ UNCHANGED <<mvars, mode, dir, files, mainpc, wpc, closerpc, wg,
                   fileModTimes, cursor, info, runs, debugFile, exit>>

\* The range ends on the closed and empty channel; main returns.
MainRangeEnd ==
    /\ exit = "running"
    /\ mainpc = "range"
    /\ stats.buf = <<>>
    /\ stats.closed
    /\ mainpc' = "end"
    /\ exit' = "returned"
    /\ UNCHANGED <<mvars, mode, dir, files, stats, wpc, closerpc, wg, allStats,
                   fileModTimes, cursor, info, runs, diag, debugFile>>

\* watchDirectory: the Glob that opens a poll, src/main.go:584-589.
WatchGlob ==
    /\ exit = "running"
    /\ mode = "watch"
    /\ mainpc = "start"
    /\ files' = Glob(dir)
    /\ cursor' = 1
    /\ mainpc' = "poll"
    /\ UNCHANGED <<mvars, mode, dir, stats, wpc, closerpc, wg, allStats,
                   fileModTimes, info, runs, diag, debugFile, exit>>

\* info.ModTime().After(lastMod)
After(t, u) == t > u

\* One file of the poll, up to the receive: src/main.go:591-605.
WatchVisit ==
    /\ exit = "running"
    /\ mode = "watch"
    /\ mainpc = "poll"
    /\ cursor <= Len(files)
    /\ IF \/ HasSuffix(files[cursor], dotMinJs)
          \/ ~dir[files[cursor]].exists
          \/ ~After(dir[files[cursor]].mtime, fileModTimes[files[cursor]])
       THEN /\ cursor' = cursor + 1
            /\ UNCHANGED <<dir, stats, mainpc, info, runs, diag>>
       ELSE \E minified \in Minified(files[cursor]) :
            \E r \in {processFile(files[cursor], <<>>, dir, minified)} :
               /\ dir' = r.dir
               /\ stats' = [buf |-> r.sent, cap |-> 1, closed |-> FALSE]
               /\ runs' = [runs EXCEPT ![files[cursor]] = @ + 1]
               /\ diag' = DebugLog(r.log)
               /\ info' = dir[files[cursor]].mtime
               /\ mainpc' = "recv"
               /\ UNCHANGED cursor
    /\ UNCHANGED <<mvars, mode, files, wpc, closerpc, wg, allStats,
                   fileModTimes, debugFile, exit>>

\* stat := <-stats; fileModTimes[file] = info.ModTime(), src/main.go:606-609.
WatchRecv ==
    /\ exit = "running"
    /\ mode = "watch"
    /\ mainpc = "recv"
    /\ stats.buf # <<>>
    /\ stats' = [stats EXCEPT !.buf = Tail(@)]
    /\ fileModTimes' = [fileModTimes EXCEPT ![files[cursor]] = info]
    /\ cursor' = cursor + 1
    /\ mainpc' = "poll"
    /\ UNCHANGED <<mvars, mode, dir, files, wpc, closerpc, wg, allStats, info,
                   runs, diag, debugFile, exit>>

\* time.Sleep(1 * time.Second) at the end of a poll, src/main.go:613.
WatchSleep ==
    /\ exit = "running"
    /\ mode = "watch"
    /\ mainpc = "poll"
    /\ cursor > Len(files)
    /\ mainpc' = "start"
    /\ UNCHANGED <<mvars, mode, dir, files, stats, wpc, closerpc, wg, allStats,
                   fileModTimes, cursor, info, runs, diag, debugFile, exit>>

\* Someone saves the input file p: its modification time moves on.
Touch(p) ==
    /\ mode = "watch"
    /\ dir[p].mtime < MaxTime
    /\ dir' = [dir EXCEPT ![p] = [@ EXCEPT !.mtime = @ + 1]]
    /\ UNCHANGED <<mvars, mode, files, stats, mainpc, wpc, closerpc, wg,
                   allStats, fileModTimes, cursor, info, runs, diag, debugFile,
                   exit>>

\* Every goroutine waits: main at a receive from an empty channel that nobody
\* will send on or close, no other goroutine able to run.
AllAsleep ==
    /\ \/ mainpc = "recv" /\ stats.buf = <<>>
       \/ mainpc = "range" /\ stats.buf = <<>> /\ ~stats.closed
    /\ \A p \in PathSet : wpc[p] \in {"none", "done"}
    /\ closerpc = "wait" => wg > 0

\* The Go runtime ends a program all of whose goroutines wait:
\* "fatal error: all goroutines are asleep - deadlock!", exit status 2.
Deadlock ==
    /\ exit = "running"
    /\ AllAsleep
    /\ exit' = "deadlock"
    /\ diag' = Append(diag, "fatal error: all goroutines are asleep - deadlock!")
    /\ UNCHANGED <<mvars, mode, dir, files, stats, mainpc, wpc, closerpc, wg,
                   allStats, fileModTimes, cursor, info, runs, debugFile>>

FileInit ==
    \E fl \in {<<>>, <<aJs>>, <<bJs>>, <<bMinJs>>} : DriverInit("file", fl)

BatchInit == DriverInit("batch", <<>>)

WatchInit == DriverInit("watch", <<>>)

FileNext == MainFile \/ MainFileRecv \/ Deadlock

BatchNext ==
    \/ MainGlob
    \/ MainSpawn
    \/ MainGoCloser
    \/ \E p \in PathSet : Worker(p)
    \/ \E p \in PathSet : WorkerDone(p)
    \/ Closer
    \/ MainRange
    \/ MainRangeEnd

WatchNext ==
    \/ WatchGlob
    \/ WatchVisit
    \/ WatchRecv
    \/ WatchSleep
    \/ \E p \in {aJs, bJs} : Touch(p)
    \/ Deadlock

\* A goroutine that can run is run, and the runtime notices that none can.
FileSpec == FileInit /\ [][FileNext]_vars /\ WF_vars(FileNext)

\* Each goroutine that can run is run in the end.
BatchSpec ==
    /\ BatchInit
    /\ [][BatchNext]_vars
    /\ WF_vars(MainGlob \/ MainSpawn \/ MainGoCloser \/ MainRange \/ MainRangeEnd)
    /\ \A p \in PathSet : WF_vars(Worker(p) \/ WorkerDone(p))
    /\ WF_vars(Closer)

\* The watcher and the runtime go on; nobody has to save a file.
WatchSpec ==
    /\ WatchInit
    /\ [][WatchNext]_vars
    /\ WF_vars(WatchGlob \/ WatchVisit \/ WatchRecv \/ WatchSleep \/ Deadlock)

-----------------------------------------------------------------------------
(* Reference definitions the claims are stated with.                       *)

NotSpace(c) == ~IsSpace(c)

\* s without its whitespace characters.
NonSpace(s) == SelectSeq(s, NotSpace)

Chars(s) == {s[k] : k \in 1..Len(s)}

\* s holds t as a contiguous run.
Contains(s, t) == \E k \in 1..(Len(s) - Len(t) + 1) : LitAt(s, k, t)

\* A comment starts at j: "//", or "/*" that has its "*/".
CommentAt(s, j) ==
    \/ LitAt(s, j, <<"/", "/">>)
    \/ LitAt(s, j, <<"/", "*">>) /\ CloseAt(s, j + 2) > 0

\* The index just after the comment that starts at j.
CommentEnd(s, j) ==
    IF LitAt(s, j, <<"/", "/">>) THEN FindChar(s, j + 2, "\n")
    ELSE CloseAt(s, j + 2) + 2

\* The characters of s that stand in no comment, read left to right: a "//"
\* inside a block comment and a "/*" inside a line comment open nothing.
RECURSIVE CodeFrom(_, _)
CodeFrom(s, i) ==
    LET cs == {j \in i..Len(s) : CommentAt(s, j)}
        m  == Min(cs)
    IN  IF cs = {} THEN SubSeq(s, i, Len(s))
        ELSE SubSeq(s, i, m - 1) \o CodeFrom(s, CommentEnd(s, m))

CodeChars(s) == IF Len(s) = 0 THEN <<>> ELSE CodeFrom(s, 1)

NoQuotes(s) == Chars(s) \cap {"\"", "'"} = {}

\* What Minify returned after the retained license block.
Body == SubSeq(result, Len(license) + 1, Len(result))

-----------------------------------------------------------------------------
(* Claims.                                                                 *)

\* C1: with both options off, on an input without string literals and without
\* repeated semicolons, Minify returns, whitespace ignored, exactly the input's
\* characters that are outside comments, in their order.
C1_CodeCharsKept ==
    (/\ pc = "done"
     /\ ~preserveLicense /\ ~shortenVars
     /\ NoQuotes(input)
     /\ ~Contains(NonSpace(CodeChars(input)), <<";", ";">>))
    => NonSpace(result) = NonSpace(CodeChars(input))

\* The leading marked block of the input: the index of the "/" that closes it,
\* or 0 when the input does not open with a closed "/*!" block.
LicenseEnd ==
    IF LitAt(input, 1, <<"/", "*", "!">>) /\ CloseAt(input, 4) > 0
    THEN CloseAt(input, 4) + 1 ELSE 0

\* The outputs Minify has for a text when preserve-license is off.
PlainOutputs(text) ==
    IF shortenVars
    THEN LET b == MinifyBody(text)
             d == Declare(Shield(b).code, <<>>, 0)
         IN  {shortenVariableNames(b, <<>>, 0, vo, so) :
                 vo \in Orders(DOMAIN d.varMap),
                 so \in Orders(1..Len(Shield(b).lits))}
    ELSE {MinifyBody(text)}

\* C2: with preserve-license set and an input that opens with a "/*!" block, the
\* output is that block, byte for byte, one line break, and the minified rest.
C2_LicensePrefix ==
    (pc = "done" /\ preserveLicense /\ LicenseEnd > 0)
    => /\ Len(result) >= LicenseEnd + 1
       /\ SubSeq(result, 1, LicenseEnd) = SubSeq(input, 1, LicenseEnd)
       /\ result[LicenseEnd + 1] = "\n"
       /\ Len(result) > LicenseEnd + 1 => result[LicenseEnd + 2] # "\n"
       /\ SubSeq(result, LicenseEnd + 2, Len(result))
             \in PlainOutputs(SubSeq(input, LicenseEnd + 1, Len(input)))

\* A run where the block holds "//" and a declaration, more text follows its
\* first "*/", and the renamer ran.
C2_Witness ==
    /\ pc = "done" /\ preserveLicense /\ shortenVars
    /\ LicenseEnd > 0
    /\ Contains(SubSeq(input, 1, LicenseEnd), <<"/", "/">>)
    /\ Len(result) > LicenseEnd + 1

\* C3: when the flag is unset or the input does not open with "/*!", nothing is
\* retained; and a "/*! ... */" block that is not retained leaves none of its
\* text: if every "!" of the input stands in a comment, the output after the
\* retained block holds no "!".
C3_UnretainedBlockRemoved ==
    pc = "done"
    => /\ (~preserveLicense \/ ~LitAt(input, 1, <<"/", "*", "!">>)) => license = <<>>
       /\ (license = <<>> /\ "!" \notin Chars(CodeChars(input)))
             => "!" \notin Chars(Body)

\* C4: every comment of the input is removed in full: with nothing retained and
\* the renamer off, the output is what the later stages make of the input's
\* characters outside comments.
C4_CommentsRemoved ==
    (pc = "done" /\ license = <<>> /\ ~shortenVars)
    => result = Compact(NormalizeSpace(CodeChars(input)))

-----------------------------------------------------------------------------
(* Reference definitions for the renamer's claims.                         *)

\* The text the renamer is handed when nothing is retained.
PreRename == MinifyBody(input)

\* The identifiers PreRename declares, in order of first declaration.
RECURSIVE DeclaredFrom(_, _, _)
DeclaredFrom(s, i, seen) ==
    LET ms == {j \in i..Len(s) : MatchDecl(s, j).end > 0}
        d  == MatchDecl(s, Min(ms))
        known == \E k \in 1..Len(seen) : seen[k] = d.original
    IN  IF ms = {} THEN seen
        ELSE DeclaredFrom(s, d.end, IF known THEN seen ELSE Append(seen, d.original))

Declared(s) == IF Len(s) = 0 THEN <<>> ELSE DeclaredFrom(s, 1, <<>>)

\* The k-th short name, counted from 1: a, b, c, ...
ShortName(k) == generateVarName(k - 1).name

\* s with every whole-word occurrence of names[k] replaced by ShortName(k), all
\* names at once in a single pass from left to right.
RECURSIVE RenamedFrom(_, _, _)
RenamedFrom(s, i, names) ==
    LET hit(j) == {k \in 1..Len(names) : MatchWord(s, j, names[k]) > 0}
        ms == {j \in i..Len(s) : hit(j) # {}}
        m  == Min(ms)
        k  == Min(hit(m))
    IN  IF ms = {} THEN SubSeq(s, i, Len(s))
        ELSE SubSeq(s, i, m - 1) \o ShortName(k)
                \o RenamedFrom(s, m + Len(names[k]), names)

Renamed(s) == IF Len(s) = 0 THEN <<>> ELSE RenamedFrom(s, 1, Declared(s))

\* The end of the run of word characters that starts at i.
SpanWord(s, i) ==
    Min({j \in i..(Len(s) + 1) : j = Len(s) + 1 \/ ~IsWord(s[j])})

\* The words of s, left to right.
RECURSIVE WordsFrom(_, _)
WordsFrom(s, i) ==
    LET ms == {j \in i..Len(s) : IsWord(s[j])}
        m  == Min(ms)
    IN  IF ms = {} THEN <<>>
        ELSE <<Sub(s, m, SpanWord(s, m))>> \o WordsFrom(s, SpanWord(s, m))

Words(s) == IF Len(s) = 0 THEN <<>> ELSE WordsFrom(s, 1)

\* The quote at k closes the literal opened at i: it is the opening quote's
\* character and an even number of backslashes stands right before it.
Closes(s, i, k) ==
    /\ s[k] = s[i]
    /\ LET last == CHOOSE j \in i..(k - 1) :
                      /\ j = i \/ s[j] # "\\"
                      /\ \A h \in (j + 1)..(k - 1) : s[h] = "\\"
       IN  (k - 1 - last) % 2 = 0

\* The index just after the JavaScript string literal opened at i, or 0 when it
\* is not closed.
JSLitEnd(s, i) ==
    LET ks == {k \in (i + 1)..Len(s) : Closes(s, i, k)}
    IN  IF ks = {} THEN 0 ELSE Min(ks) + 1

\* The string literals of s as JavaScript reads them, left to right; reading
\* stops at a literal that is not closed.
RECURSIVE JSLitsFrom(_, _)
JSLitsFrom(s, i) ==
    LET qs == {j \in i..Len(s) : s[j] \in {"\"", "'"}}
        q  == Min(qs)
        e  == JSLitEnd(s, q)
    IN  IF qs = {} \/ e = 0 THEN <<>>
        ELSE <<Sub(s, q, e)>> \o JSLitsFrom(s, e)

JSLits(s) == IF Len(s) = 0 THEN <<>> ELSE JSLitsFrom(s, 1)

strPrefix == <<"_", "_", "S", "T", "R", "_">>

\* The value of a run of decimal digits, or -1 when ds is no such run.
RECURSIVE DecimalValue(_)
DecimalValue(ds) ==
    LET c == ds[Len(ds)]
        v == CHOOSE k \in 0..9 : DigitChars[k + 1] = c
        front == SubSeq(ds, 1, Len(ds) - 1)
    IN  IF ds = <<>> \/ c \notin Digit THEN -1
        ELSE IF front = <<>> THEN v
        ELSE IF DecimalValue(front) < 0 THEN -1
        ELSE DecimalValue(front) * 10 + v

-----------------------------------------------------------------------------
(* Claims about the renamer.                                               *)

\* C5: with shorten-variables on, every declared identifier is replaced, at its
\* declaration and at every use, by its short name, the names being a, b, c, ...
\* in order of first declaration; the test's two long names become a and b.
C5_DeclaredRenamed ==
    (pc = "done" /\ shortenVars /\ ~preserveLicense /\ NoQuotes(input))
    => /\ result = Renamed(PreRename)
       /\ \A k \in 1..Len(Declared(PreRename)) :
             /\ Declared(PreRename)[k] \in DOMAIN varMap
             /\ varMap[Declared(PreRename)[k]] = ShortName(k)

\* C6: within one run no two different identifiers of the input become the same
\* identifier of the output; the README's example gets c for result.
C6_NoCollision ==
    (pc = "done" /\ shortenVars /\ ~preserveLicense /\ NoQuotes(input))
    => LET pre  == Words(PreRename)
           post == Words(result)
       IN  /\ Len(post) = Len(pre)
           /\ \A j, k \in 1..Len(pre) : pre[j] # pre[k] => post[j] # post[k]
           /\ input = readmeInput => result = readmeShortened

\* C7: Substitute gives the same text whatever the order in which the entries
\* of the rename table are applied.
C7_SubstituteOrderFree ==
    (pc = "done" /\ shortenVars /\ ~preserveLicense)
    => LET d == Declare(Shield(PreRename).code, <<>>, 0)
       IN  \A o1, o2 \in Orders(DOMAIN d.varMap) :
              Substitute(d.code, d.varMap, o1) = Substitute(d.code, d.varMap, o2)

\* C8: on a fresh Minifier the N-th call of generateVarName, counted from 0,
\* returns letter N mod 26 of a..z followed by the decimal N div 26 when that is
\* not zero; the counter is the number of calls made; no name comes twice.
C8_GeneratedNames ==
    /\ varCounter = Len(generated)
    /\ \A n \in 1..Len(generated) :
          LET N    == n - 1
              name == generated[n]
          IN  /\ Len(name) >= 1
              /\ name[1] = alphabet[(N % 26) + 1]
              /\ (N \div 26 = 0) => Len(name) = 1
              /\ (N \div 26 # 0) =>
                    /\ Len(name) > 1
                    /\ name[2] # "0"
                    /\ DecimalValue(Tail(name)) = N \div 26
    /\ Cardinality({generated[n] : n \in 1..Len(generated)}) = Len(generated)

\* Calls enough to pass z, z1, ... up to a two-digit suffix.
C8_Witness ==
    /\ Len(generated) > 260
    /\ generated[261] = <<"a", "1", "0">>
    /\ generated[27] = <<"a", "1">>

\* C9: with shorten-variables on, every string literal of the input that does
\* not hold the placeholder prefix stands in the output with its exact text.
C9_LiteralsKept ==
    (pc = "done" /\ shortenVars /\ ~preserveLicense)
    => \A k \in 1..Len(JSLits(input)) :
          ~Contains(JSLits(input)[k], strPrefix)
             => Contains(result, JSLits(input)[k])

\* C10: shortenVariableNames rewrites nothing inside a string literal, a
\* literal with backslash-escaped quotes included: the literals of the text it
\* returns are the literals of the text it was handed.
C10_LiteralsUntouched ==
    (pc = "done" /\ shortenVars /\ ~preserveLicense)
    => JSLits(result) = JSLits(PreRename)

-----------------------------------------------------------------------------
\* C11: Minify is total: on every input and under every combination of the
\* options the call ends and returns its result, and it never panics: no
\* pattern built from a declared identifier fails to compile, and the index
\* into the alphabet in generateVarName is never out of range.
C11_MinifyTotal ==
    /\ [](pc # "panic")
    /\ [](varCounter >= 0 /\ (varCounter % 26) + 1 \in DOMAIN alphabet)
    /\ [](\A original \in DOMAIN varMap : Compiles(original))
    /\ <>(pc = "done")

\* A call with shorten-variables on has returned after it compiled the pattern
\* of an identifier that holds a "$".
C11_Witness ==
    /\ pc = "done"
    /\ shortenVars
    /\ \E original \in DOMAIN varMap : "$" \in Chars(original)

-----------------------------------------------------------------------------
\* The text holds a comment marker.
HasComment(s) == Contains(s, <<"/", "/">>) \/ Contains(s, <<"/", "*">>)

\* The text holds whitespace that separates nothing: at its start, at its end,
\* or next to other whitespace.
HasRedundantSpace(s) ==
    /\ Len(s) > 0
    /\ \/ IsSpace(s[1])
       \/ IsSpace(s[Len(s)])
       \/ \E k \in 1..(Len(s) - 1) : IsSpace(s[k]) /\ IsSpace(s[k + 1])

\* C12: on every input that holds a comment or redundant whitespace, under every
\* combination of the options, what Minify returns is no longer than the input.
C12_NoLonger ==
    (pc = "done" /\ (HasComment(input) \/ HasRedundantSpace(input)))
        => Len(result) <= Len(input)

\* C12 as the code has it: with shorten-variables off, what Minify returns is no
\* longer than the input when no license block is retained, and at most one
\* character longer, the line break put after the block, when one is.
C12_NoLongerButLicenseBreak ==
    (pc = "done" /\ ~shortenVars)
        => Len(result) <= Len(input) + (IF license = <<>> THEN 0 ELSE 1)

\* A retained license block made the result one character longer than an input
\* that holds a comment.
C12_Witness ==
    /\ pc = "done"
    /\ ~shortenVars
    /\ license # <<>>
    /\ HasComment(input)
    /\ Len(result) = Len(input) + 1

-----------------------------------------------------------------------------
\* strings.Count(s, c) for a one-character c.
Count(s, c) == CountOf(s, Len(s), c)

BracketChars == {brackets[k] : k \in 1..Len(brackets)}

\* C13: for every input, each of the six brackets occurs in what Minify returns
\* exactly as many times as in the input.
C13_BracketCounts ==
    pc = "done" => \A c \in BracketChars : Count(result, c) = Count(input, c)

\* C13 as the code has it: with shorten-variables off no bracket is added, and
\* on an input without a comment marker none is removed either; a bracket that
\* stands in a comment goes with the comment.
C13_BracketCountsOutsideComments ==
    (pc = "done" /\ ~shortenVars)
        => \A c \in BracketChars :
              /\ Count(result, c) <= Count(input, c)
              /\ ~HasComment(input) => Count(result, c) = Count(input, c)

\* Minify took the whitespace from around the brackets of an input without
\* comments and kept every bracket.
C13_Witness ==
    /\ pc = "done"
    /\ ~shortenVars
    /\ ~HasComment(input)
    /\ Len(result) < Len(input)
    /\ Count(input, "(") > 0
    /\ Count(input, "b") > 0
    /\ \A c \in BracketChars : Count(result, c) = Count(input, c)

-----------------------------------------------------------------------------
-----------------------------------------------------------------------------
\* processFile has returned to main without a record on stats: its read or its
\* write failed.
FileFailed == mode = "file" /\ mainpc = "recv" /\ stats.buf = <<>> /\ allStats = <<>>

ErrorLines == {"Error reading input file", "Error writing output file"}

\* C15: in single-file mode a failed read of the input file or a failed write of
\* the output file is fatal: the program writes a diagnostic about it and ends
\* its run.
C15_FailureIsFatal ==
    FileFailed ~> (exit = "returned" /\ \E k \in DOMAIN diag : diag[k] \in ErrorLines)

-----------------------------------------------------------------------------
\* The paths batch mode starts a goroutine for.
BatchInputs == {p \in PathSet : dir[p].exists /\ ~HasSuffix(p, dotMinJs)}

\* The input can be read and its output path written.
CanProcess(p) == dir[p].readable /\ dir[DefaultOutput(p)].writable

\* The records of allStats about the input p.
RecordsOf(p) == {k \in DOMAIN allStats : allStats[k].InputFile = p}

\* C16: in batch mode a file whose read or write fails is skipped and the others
\* go on: processFile runs exactly once for every file that is not a .min.js
\* file and never for a .min.js file, main receives exactly one record for each
\* file that was read and written and none for the others, and main returns,
\* after every goroutine has finished.
C16_FailedFileSkipped ==
    /\ [](\A p \in PathSet : runs[p] <= 1)
    /\ [](exit = "returned" =>
            /\ \A p \in BatchInputs :
                  /\ runs[p] = 1
                  /\ wpc[p] = "done"
                  /\ Cardinality(RecordsOf(p)) = IF CanProcess(p) THEN 1 ELSE 0
            /\ \A p \in PathSet \ BatchInputs : runs[p] = 0 /\ RecordsOf(p) = {}
            /\ closerpc = "done")
    /\ <>(exit = "returned")

\* A batch run has returned in which a.js could not be read and b.js was
\* minified.
C16_Witness ==
    /\ mode = "batch"
    /\ exit = "returned"
    /\ ~dir[aJs].readable
    /\ runs[aJs] = 1
    /\ Len(allStats) = 1
    /\ allStats[1].InputFile = bJs
    /\ dir[bMinJs].exists

-----------------------------------------------------------------------------
\* The files watch mode looks at.
Watched == {aJs, bJs}

\* C17: in watch mode a file is minified again on a poll exactly when its
\* modification time is later than the one recorded at its last processing (the
\* zero time before the first): processFile runs only on such a file, never on
\* a .min.js file and never on a file whose time is the recorded one, and a file
\* that can be processed and whose time is later than the recorded one is
\* processed, after which the recorded time is no longer behind.
C17_ChangedFilesReminified ==
    /\ [][ \A p \in PathSet :
              runs'[p] # runs[p] =>
                 /\ runs'[p] = runs[p] + 1
                 /\ ~HasSuffix(p, dotMinJs)
                 /\ After(dir[p].mtime, fileModTimes[p]) ]_vars
    /\ \A p \in Watched :
          (mode = "watch" /\ CanProcess(p) /\ After(dir[p].mtime, fileModTimes[p]))
             ~> ~After(dir[p].mtime, fileModTimes[p])

-----------------------------------------------------------------------------
\* The text is made of line comments, block comments and whitespace only.
OnlyComments(s) == NonSpace(CodeChars(s)) = <<>>

\* C18: with both options off Minify returns the empty text for the empty input
\* and for every input made only of line comments, block comments and
\* whitespace.
C18_CommentsOnlyGivesEmpty ==
    (pc = "done" /\ ~preserveLicense /\ ~shortenVars /\ OnlyComments(input))
        => result = <<>>

-----------------------------------------------------------------------------
\* C19: Minify never joins two identifiers or keywords that only whitespace
\* separates (a line break between two statements, the blanks between function
\* and a name): on an input without comments, renamer off, the words of the
\* result are the words of the input, one for one.
C19_WordsStaySeparate ==
    (pc = "done" /\ ~shortenVars /\ ~HasComment(input))
        => Words(result) = Words(input)

-----------------------------------------------------------------------------
OperatorChars == {operators[k] : k \in 1..Len(operators)}

\* An operator of s has whitespace right before it or right after it.
SpaceAtOperator(s) ==
    \E k \in 1..Len(s) :
        /\ s[k] \in OperatorChars
        /\ \/ k > 1 /\ IsSpace(s[k - 1])
           \/ k < Len(s) /\ IsSpace(s[k + 1])

-----------------------------------------------------------------------------
\* Two characters of \s stand side by side in s.
HasSpaceRun(s) == \E k \in 1..(Len(s) - 1) : IsSpace(s[k]) /\ IsSpace(s[k + 1])

-----------------------------------------------------------------------------
\* s[k] is whitespace at the beginning or at the end of a line: what
\* (?m)^\s+|\s+$ matches, ^ after a line break and $ before one.
AtLineEdge(s, k) ==
    \/ \E j \in 1..k :
          /\ j = 1 \/ s[j - 1] = "\n"
          /\ \A m \in j..k : IsSpace(s[m])
    \/ \E e \in k..Len(s) :
          /\ e = Len(s) \/ s[e + 1] = "\n"
          /\ \A m \in k..e : IsSpace(s[m])

\* The characters of s at the indices in K, in their order.
Keep(s, K) ==
    [n \in 1..Cardinality(K) |->
        s[CHOOSE k \in K : Cardinality({j \in K : j <= k}) = n]]

\* Every line of s with the whitespace at its two ends taken off.
TrimLines(s) == Keep(s, {k \in 1..Len(s) : ~AtLineEdge(s, k)})

\* The compactor's rewrites alone, in their order.
punctuationStages ==
    Around(operators) \o <<semicolons, functionSpace, callParen, commaSpace>>
        \o Around(brackets)

\* The stages in the order of the README's rules: comments, then per-line trim,
\* collapse of runs and removal of line breaks, then the compactor's rewrites.
DocumentedBody(s) ==
    Apply(punctuationStages,
          ReplaceAll(newlines,
              ReplaceAll(spaceRun, TrimLines(StripComments(s)))))

\* C22: for every input, what Minify returns without the renamer is the retained
\* license block followed by the text the stages give when run in the
\* documented order, the whole whitespace normalisation (per-line trim,
\* collapse of runs, removal of line breaks) before any rewrite of the
\* compactor.
C22_DocumentedOrder ==
    (pc = "done" /\ ~shortenVars)
        => result = license \o
               DocumentedBody(PreserveLicense(input, preserveLicense).rest)

-----------------------------------------------------------------------------
\* The identifier of every declaration of s, in the order of the scan, repeats
\* included.
RECURSIVE DeclarationsFrom(_, _)
DeclarationsFrom(s, i) ==
    LET ms == {j \in i..Len(s) : MatchDecl(s, j).end > 0}
        d  == MatchDecl(s, Min(ms))
    IN  IF ms = {} THEN <<>>
        ELSE <<d.original>> \o DeclarationsFrom(s, d.end)

Declarations(s) == IF Len(s) = 0 THEN <<>> ELSE DeclarationsFrom(s, 1)

\* The text the Declare step scans: the compacted input, literals shielded.
DeclareInput == Shield(MinifyBody(input)).code

\* C23: in every state the counter is the number of entries of the rename table
\* and the table gives different identifiers different short names; once Minify
\* has run its Declare step, the table holds exactly the identifiers declared,
\* the k-th of them in order of first declaration under the k-th generated
\* name, however often each is declared again.
C23_OneNamePerIdentifier ==
    /\ varCounter = Cardinality(DOMAIN varMap)
    /\ \A o1, o2 \in DOMAIN varMap : o1 # o2 => varMap[o1] # varMap[o2]
    /\ (pc \in {"done", "again", "panic"} /\ shortenVars /\ ~preserveLicense)
          => LET ds == Declared(DeclareInput)
             IN  /\ DOMAIN varMap = {ds[k] : k \in 1..Len(ds)}
                 /\ \A k \in 1..Len(ds) : varMap[ds[k]] = ShortName(k)
                 /\ generated = [k \in 1..Len(ds) |-> ShortName(k)]

\* Minify has returned on a text that declares the same identifier twice: the
\* table has one entry for it and the counter has advanced once.
C23_Witness ==
    /\ pc = "done"
    /\ shortenVars
    /\ \E j, k \in 1..Len(Declarations(DeclareInput)) :
          /\ j < k
          /\ Declarations(DeclareInput)[j] = Declarations(DeclareInput)[k]
    /\ varCounter = Cardinality(DOMAIN varMap)
    /\ varCounter >= 1

-----------------------------------------------------------------------------
\* The file workers that have been started and have not yet sent or failed.
Sending == {p \in PathSet : wpc[p] = "run"}

\* The file workers that have been started and have not returned.
Running == {p \in PathSet : wpc[p] \in {"run", "deferred"}}

\* C24: in batch mode, however the file workers, the closer and main's range
\* over stats interleave: stats is closed only when every worker has been
\* started and has returned; no record is put on stats once it is closed; the
\* buffer always has room for the record of every worker still to send, so no
\* send waits; and main's range over stats ends.
C24_ChannelProtocol ==
    /\ [](stats.closed => /\ mainpc \in {"range", "end"}
                          /\ Running = {}
                          /\ \A p \in BatchInputs : wpc[p] = "done")
    /\ [][Len(stats'.buf) > Len(stats.buf) => ~stats.closed]_vars
    /\ [](mainpc # "start" =>
             Len(stats.buf) + Cardinality(Sending) <= stats.cap)
    /\ <>(mainpc = "end")

\* A batch run has returned: both workers sent their records, the channel was
\* closed after them, and main received both records.
C24_Witness ==
    /\ mode = "batch"
    /\ exit = "returned"
    /\ stats.closed
    /\ stats.buf = <<>>
    /\ Len(allStats) = 2
    /\ \A p \in BatchInputs : wpc[p] = "done"

-----------------------------------------------------------------------------
\* C25: in watch mode a file whose read or write fails is skipped: the watcher
\* never stays at its receive from stats, it goes on from every receive to the
\* next file of the poll, and the program keeps running, poll after poll.
C25_WatchSkipsFailedFile ==
    /\ [](mode = "watch" => exit = "running")
    /\ (mode = "watch" /\ mainpc = "recv") ~> (mainpc = "poll")
    /\ mode = "watch" => []<>(mainpc = "start")

-----------------------------------------------------------------------------
\* The number of input files of the largest directory: the paths that are not
\* .min.js files.
MaxInputs == Cardinality({p \in PathSet : ~HasSuffix(p, dotMinJs)})

\* C26: batch mode runs its file workers in a pool of a fixed size, whatever the
\* number of files, so a directory with more input files than the pool has
\* places never has all its workers running at once.  The directory here holds
\* MaxInputs input files; a pool that bounds anything has fewer places.
C26_PoolBound == mode = "batch" => Cardinality(Running) < MaxInputs

=============================================================================
